---- MODULE Spec2Model ----
(***************************************************************************)
(* Model of the PowerSync/Supabase todo demo (frontend/src/App.js).        *)
(*                                                                         *)
(* The local SQLite store and its queue of pending mutations (ps_crud) are *)
(* written by the App handlers through powerSync.execute; the connector    *)
(* SupabaseConnector.uploadData drains the queue one CRUD transaction at a *)
(* time into the remote Postgres store, whose schema is the SQL of the     *)
(* README.  Names, descriptions and timestamps are payload columns that no *)
(* branch of the code reads; they are left out of the records.             *)
(***************************************************************************)
EXTENDS Integers, Sequences, FiniteSets, TLC

\* ------------------------------------------------------------------ bounds
\* number of handler invocations (create list/todo, toggle, delete list)
MaxLocalOps == 5
\* number of remote-call / complete() failures the environment injects
MaxFailures == 1
\* number of times uploadData is invoked while an earlier call is pending
MaxReinvocations == 1
\* number of mutations of a transaction handed to uploadData as its input
MaxBatchLen == 3

\* identifiers uuidv4() hands out, in the order it hands them out
ListIdSeq == <<"L1", "L2">>
TodoIdSeq == <<"T1", "T2", "T3">>
ListIds == {ListIdSeq[k] : k \in 1..Len(ListIdSeq)}
TodoIds == {TodoIdSeq[k] : k \in 1..Len(TodoIdSeq)}

\* the identifiers uuidv4() hands to createSampleData: fresh ones
SampleListId == "S0"
SampleTodoIdSeq == <<"S1", "S2", "S3">>

\* invocations of uploadData that may be pending at once: 1 is the upload
\* loop's call, 2 a second call made while the first is pending
Invs == {1, 2}

VARIABLES
  dbLists,      \* local SQLite table lists: set of ids
  dbTodos,      \* local SQLite table todos: set of [id, list_id, completed]
  queue,        \* pending mutations (ps_crud), oldest first
  txCount,      \* number of local write transactions executed so far
  nLists,       \* number of list ids uuidv4() has handed out
  nTodos,       \* number of todo ids uuidv4() has handed out
  localOps,     \* number of handler invocations so far
  uiTodos,      \* React state todos: the rows the UI shows (setTodos)
  load,         \* where loadData, started when App mounts, is
  deleting,     \* the list a handleDeleteList between its two DELETEs is
                \*   deleting, or "none"
  remoteLists,  \* remote table lists: set of ids
  remoteTodos,  \* remote table todos: set of [id, list_id, completed]
  directLists,  \* reference store: every queued mutation applied once,
  directTodos,  \*   in queue order, directly to an (initially equal) remote
  up,           \* state of each uploadData invocation
  failures,     \* failures injected so far
  reinvoked,    \* invocations made while an earlier one was pending
  isReady,      \* PowerSyncProvider state isReady
  error         \* PowerSyncProvider state error: TRUE when an error is set

vars == <<dbLists, dbTodos, queue, txCount, nLists, nTodos, localOps,
          uiTodos, load, deleting, remoteLists, remoteTodos, directLists,
          directTodos, up, failures,
          reinvoked, isReady, error>>

localVars  == <<dbLists, dbTodos, queue, txCount, nLists, nTodos, localOps,
                uiTodos, load, deleting, directLists, directTodos>>
providerVars == <<isReady, error>>
envVars == <<failures, reinvoked>>
remoteVars == <<remoteLists, remoteTodos>>

\* ----------------------------------------------------------------- helpers
RECURSIVE SeqFilter(_, _)
\* the elements of s, in order, that are in set S
SeqFilter(s, S) ==
  IF s = <<>> THEN <<>>
  ELSE IF Head(s) \in S THEN <<Head(s)>> \o SeqFilter(Tail(s), S)
       ELSE SeqFilter(Tail(s), S)

IsPrefix(s, t) == Len(s) <= Len(t) /\ SubSeq(t, 1, Len(s)) = s

\* ------------------------------------------------------- the remote store
\* README schema: todos.completed is BOOLEAN; Postgres reads 0/1 as a boolean
PgBool(v) == v = 1

\* a todos table whose list_id carries no foreign key
FkOkUnchecked(lists, payload) == TRUE

\* the foreign key of todos.list_id: can the row be written?
FkOk(lists, payload) == payload.list_id \in lists

\* INSERT ... ON CONFLICT (id) DO UPDATE: the row keyed by payload.id is
\* replaced by the payload
\* an insert that on conflict removes the row
UpsertListDropsOnConflict(lists, payload) ==
  IF payload.id \in lists THEN lists \ {payload.id}
  ELSE lists \cup {payload.id}

UpsertList(lists, payload) == lists \cup {payload.id}

\* an upsert that on conflict removes the row and does not write it again
UpsertTodoDropsOnConflict(todos, payload) ==
  IF \E t \in todos : t.id = payload.id
    THEN {t \in todos : t.id # payload.id}
    ELSE todos \cup {[id |-> payload.id, list_id |-> payload.list_id,
                       completed |-> payload.completed = 1]}

UpsertTodo(todos, payload) ==
  {t \in todos : t.id # payload.id}
    \cup {[id |-> payload.id, list_id |-> payload.list_id,
           completed |-> PgBool(payload.completed)]}

\* UPDATE ... WHERE id = eq: the columns of the payload, on the rows matched
UpdateTodo(todos, payload, eq) ==
  {IF t.id = eq /\ "completed" \in DOMAIN payload
     THEN [t EXCEPT !.completed = PgBool(payload.completed)]
     ELSE t : t \in todos}

\* DELETE ... WHERE id = eq; deleting a list cascades to its todos
DeleteTodo(todos, eq) == {t \in todos : t.id # eq}
DeleteList(lists, eq) == lists \ {eq}
CascadeTodos(todos, eq) == {t \in todos : t.list_id # eq}

\* does the remote store reject the call (constraint violation)?
Rejects(call, lists, todos) ==
  call.kind = "upsert" /\ call.table = "todos" /\ ~FkOk(lists, call.payload)

\* the remote store after the call was applied
ApplyLists(call, lists) ==
  IF call.table # "lists" THEN lists
  ELSE IF call.kind = "upsert" THEN UpsertList(lists, call.payload)
  ELSE IF call.kind = "delete" THEN DeleteList(lists, call.eq)
  ELSE lists

ApplyTodos(call, lists, todos) ==
  IF call.table = "lists"
    THEN IF call.kind = "delete" THEN CascadeTodos(todos, call.eq) ELSE todos
  ELSE IF call.table # "todos" THEN todos
  ELSE IF call.kind = "upsert"
    THEN IF FkOk(lists, call.payload) THEN UpsertTodo(todos, call.payload)
         ELSE todos
  ELSE IF call.kind = "update" THEN UpdateTodo(todos, call.payload, call.eq)
  ELSE DeleteTodo(todos, call.eq)

\* ---------------------------------------------- uploadData: the switch
NoCall == [kind |-> "none", table |-> "none"]

\* a switch whose PATCH case for todos addresses the table lists
RemoteCallWrongTable(op) ==
  IF op.table \notin {"lists", "todos"} THEN NoCall
  ELSE IF op.op = "PUT"
    THEN [kind |-> "upsert", table |-> op.table, payload |-> op.opData]
  ELSE IF op.op = "PATCH"
    THEN [kind |-> "update", table |-> "lists", payload |-> op.opData,
          eq |-> op.id]
  ELSE IF op.op = "DELETE"
    THEN [kind |-> "delete", table |-> op.table, eq |-> op.id]
  ELSE NoCall

\* a switch that takes the remote table from op.table without testing it
RemoteCallAnyTable(op) ==
  IF op.op = "PUT"
    THEN [kind |-> "upsert", table |-> op.table, payload |-> op.opData]
  ELSE IF op.op = "PATCH"
    THEN [kind |-> "update", table |-> op.table, payload |-> op.opData,
          eq |-> op.id]
  ELSE IF op.op = "DELETE"
    THEN [kind |-> "delete", table |-> op.table, eq |-> op.id]
  ELSE NoCall

\* switch (op.op) of uploadData: the remote call one mutation is turned into
RemoteCall(op) ==
  IF op.table \notin {"lists", "todos"} THEN NoCall
  ELSE IF op.op = "PUT"
    THEN [kind |-> "upsert", table |-> op.table, payload |-> op.opData]
  ELSE IF op.op = "PATCH"
    THEN [kind |-> "update", table |-> op.table, payload |-> op.opData,
          eq |-> op.id]
  ELSE IF op.op = "DELETE"
    THEN [kind |-> "delete", table |-> op.table, eq |-> op.id]
  ELSE NoCall

\* ------------------------------------------------------ the local queue
Mutation(tx, opKind, table, id, data) ==
  [tx |-> tx, op |-> opKind, table |-> table, id |-> id, opData |-> data]

\* a fetch that hands out the newest local transaction
NextCrudTransactionNewest(q) ==
  IF q = <<>> THEN <<>>
  ELSE SeqFilter(q, {m \in {q[k] : k \in 1..Len(q)} : m.tx = q[Len(q)].tx})

\* getNextCrudTransaction(): the mutations of the oldest local transaction
NextCrudTransaction(q) ==
  IF q = <<>> THEN <<>>
  ELSE SeqFilter(q, {m \in {q[k] : k \in 1..Len(q)} : m.tx = Head(q).tx})

\* a complete() that empties the queue
CompleteClearsQueue(q, crud) == <<>>

\* transaction.complete(): the transaction and everything before it leaves
\* the queue
Complete(q, crud) ==
  SeqFilter(q, {m \in {q[k] : k \in 1..Len(q)} : m.tx > crud[Len(crud)].tx})

\* a rollback that drops the mutation at the head of the batch
RollbackDropsHead(q, crud) == IF q = <<>> THEN q ELSE Tail(q)

\* transaction.rollback(): the queue is left as it is
Rollback(q, crud) == q

\* the reference store after the mutations ms were applied directly
RECURSIVE DirectLists(_, _)
DirectLists(ms, lists) ==
  IF ms = <<>> THEN lists
  ELSE DirectLists(Tail(ms), ApplyLists(RemoteCall(Head(ms)), lists))

RECURSIVE DirectTodos(_, _, _)
DirectTodos(ms, lists, todos) ==
  IF ms = <<>> THEN todos
  ELSE DirectTodos(Tail(ms), ApplyLists(RemoteCall(Head(ms)), lists),
                   ApplyTodos(RemoteCall(Head(ms)), lists, todos))

\* powerSync.execute(): the write reaches the queue as one transaction
Enqueue(ms) ==
  /\ queue' = queue \o ms
  /\ txCount' = txCount + 1
  /\ directLists' = DirectLists(ms, directLists)
  /\ directTodos' = DirectTodos(ms, directLists, directTodos)

\* ------------------------------------------------------------------- Init
IdleUpload ==
  [pc |-> "done", crud |-> <<>>, i |-> 1, issued |-> <<>>, results |-> <<>>,
   fetched |-> <<>>, completes |-> 0, rollbacks |-> 0, outcome |-> "none"]

Init ==
  /\ dbLists = {}
  /\ dbTodos = {}
  /\ queue = <<>>
  /\ txCount = 0
  /\ nLists = 0
  /\ nTodos = 0
  /\ localOps = 0
  /\ uiTodos = {}
  /\ load = "lists"
  /\ deleting = "none"
  /\ remoteLists = {}
  /\ remoteTodos = {}
  /\ directLists = {}
  /\ directTodos = {}
  /\ up = [u \in Invs |-> IdleUpload]
  /\ failures = 0
  /\ reinvoked = 0
  /\ isReady = FALSE
  /\ error = FALSE

\* ---------------------------------------------------- PowerSyncProvider
\* initializePowerSync: powerSync.init() resolves or rejects; either way
\* isReady is set, and a rejection also sets error.  powerSync.connect is
\* not called.
InitializePowerSync ==
  /\ ~isReady
  /\ \E initOk \in BOOLEAN :
       /\ isReady' = TRUE
       /\ error' = ~initOk
  /\ UNCHANGED <<localVars, remoteVars, up, envVars>>

\* PowerSyncProvider renders its children (the todo UI) only then
Rendered == isReady /\ ~error

\* ------------------------------------------------------- App handlers
\* handleCreateList: one INSERT INTO lists, then the lists are reloaded
HandleCreateList ==
  /\ Rendered /\ localOps < MaxLocalOps
  /\ nLists < Len(ListIdSeq)
  /\ LET id == ListIdSeq[nLists + 1] IN
       /\ dbLists' = dbLists \cup {id}
       /\ Enqueue(<<Mutation(txCount + 1, "PUT", "lists", id, [id |-> id])>>)
  /\ nLists' = nLists + 1
  /\ localOps' = localOps + 1
  /\ UNCHANGED <<dbTodos, nTodos, uiTodos, load, deleting, remoteVars, up, envVars,
                 providerVars>>

\* handleCreateTodo(listId, description): one INSERT INTO todos with
\* completed = 0; listId is the list selected in the UI.  The todos are
\* reloaded into the UI
HandleCreateTodo ==
  /\ Rendered /\ localOps < MaxLocalOps
  /\ nTodos < Len(TodoIdSeq)
  /\ \E listId \in dbLists :
       LET id == TodoIdSeq[nTodos + 1]
           row == [id |-> id, list_id |-> listId, completed |-> 0]
       IN /\ dbTodos' = dbTodos \cup {row}
          /\ Enqueue(<<Mutation(txCount + 1, "PUT", "todos", id, row)>>)
  /\ nTodos' = nTodos + 1
  /\ localOps' = localOps + 1
  /\ uiTodos' = dbTodos'
  /\ UNCHANGED <<dbLists, nLists, load, deleting, remoteVars, up, envVars,
                 providerVars>>

\* completed ? 0 : 1
ToggleValue(completed) == IF completed # 0 THEN 0 ELSE 1

\* UPDATE todos SET completed = ? WHERE id = ?, with the value computed
\* from the argument completed; the queue gets a PATCH when a row matched
ToggleExecute(todoId, completed) ==
  LET v == ToggleValue(completed) IN
  /\ dbTodos' = {IF r.id = todoId THEN [r EXCEPT !.completed = v] ELSE r :
                   r \in dbTodos}
  /\ Enqueue(IF \E r \in dbTodos : r.id = todoId
               THEN <<Mutation(txCount + 1, "PATCH", "todos", todoId,
                               [completed |-> v])>>
               ELSE <<>>)
  /\ localOps' = localOps + 1

\* handleToggleTodo(todoId, completed) run from the click to its return:
\* the checkbox passes the completed value the UI shows for the todo
\* (onToggleTodo(todo.id, todo.completed)); the todos are reloaded
HandleToggleTodo ==
  /\ Rendered /\ localOps < MaxLocalOps
  /\ \E t \in uiTodos : ToggleExecute(t.id, t.completed)
  /\ uiTodos' = dbTodos'
  /\ UNCHANGED <<dbLists, nLists, nTodos, load, deleting, remoteVars, up, envVars,
                 providerVars>>

\* handleToggleTodo up to its second await: the UPDATE is executed, the
\* reload is pending and the UI still shows the rows of the last setTodos
ToggleTodoExecute ==
  /\ Rendered /\ localOps < MaxLocalOps
  /\ \E t \in uiTodos : ToggleExecute(t.id, t.completed)
  /\ UNCHANGED <<dbLists, nLists, nTodos, uiTodos, load, deleting, remoteVars, up,
                 envVars, providerVars>>

\* the rest of handleToggleTodo: getAll resolves and setTodos(todosResult)
ToggleTodoReload ==
  /\ uiTodos # dbTodos
  /\ uiTodos' = dbTodos
  /\ UNCHANGED <<dbLists, dbTodos, queue, txCount, nLists, nTodos, localOps,
                 load, deleting, directLists, directTodos, remoteVars, up, envVars,
                 providerVars>>

\* DELETE FROM todos WHERE list_id = ?: one DELETE mutation per row, in the
\* order the rows were inserted
TodoDeletes(tx, listId) ==
  LET hit == {t.id : t \in {r \in dbTodos : r.list_id = listId}}
      ids == SeqFilter(TodoIdSeq \o SampleTodoIdSeq, hit)
  IN [k \in 1..Len(ids) |->
        Mutation(tx, "DELETE", "todos", ids[k], [id |-> ids[k]])]

\* handleDeleteList(listId): DELETE the todos of the list, then DELETE the
\* list, as two local transactions
HandleDeleteList ==
  /\ Rendered /\ localOps < MaxLocalOps
  /\ \E listId \in dbLists :
       LET dels == TodoDeletes(txCount + 1, listId)
           ltx  == IF dels = <<>> THEN txCount + 1 ELSE txCount + 2
           ms   == dels \o <<Mutation(ltx, "DELETE", "lists", listId,
                                      [id |-> listId])>>
       IN /\ dbTodos' = {t \in dbTodos : t.list_id # listId}
          /\ dbLists' = dbLists \ {listId}
          /\ queue' = queue \o ms
          /\ txCount' = ltx
          /\ directLists' = DirectLists(ms, directLists)
          /\ directTodos' = DirectTodos(ms, directLists, directTodos)
  /\ localOps' = localOps + 1
  /\ uiTodos' = dbTodos'
  /\ UNCHANGED <<nLists, nTodos, load, deleting, remoteVars, up, envVars,
                 providerVars>>

\* handleDeleteList(listId) up to its second await: the todos of the list
\* are deleted, the DELETE of the list is still to come
DeleteListTodos ==
  /\ Rendered /\ localOps < MaxLocalOps
  /\ deleting = "none"
  /\ \E listId \in dbLists :
       LET dels == TodoDeletes(txCount + 1, listId) IN
       /\ dbTodos' = {t \in dbTodos : t.list_id # listId}
       /\ queue' = queue \o dels
       /\ txCount' = IF dels = <<>> THEN txCount ELSE txCount + 1
       /\ directLists' = DirectLists(dels, directLists)
       /\ directTodos' = DirectTodos(dels, directLists, directTodos)
       /\ deleting' = listId
  /\ localOps' = localOps + 1
  /\ UNCHANGED <<dbLists, nLists, nTodos, uiTodos, load, remoteVars, up,
                 envVars, providerVars>>

\* the rest of handleDeleteList: DELETE FROM lists WHERE id = ?, then the
\* lists and todos are reloaded
DeleteListRow ==
  /\ deleting # "none"
  /\ dbLists' = dbLists \ {deleting}
  /\ Enqueue(<<Mutation(txCount + 1, "DELETE", "lists", deleting,
                        [id |-> deleting])>>)
  /\ uiTodos' = dbTodos
  /\ deleting' = "none"
  /\ UNCHANGED <<dbTodos, nLists, nTodos, localOps, load, remoteVars, up,
                 envVars, providerVars>>

LocalNext ==
  \/ HandleCreateList
  \/ HandleCreateTodo
  \/ HandleToggleTodo
  \/ HandleDeleteList

\* ---------------------------------------------------------- App.loadData
\* loadData runs once, in the effect of App's first render.  load is
\* "lists" (awaiting the SELECT of the lists), "todos" (awaiting the SELECT
\* of the todos), "catch" (a SELECT was rejected) or "done".

\* `lists` as the effect's closure holds it: the value of the first render,
\* useState([]); setLists does not reach it
ListsAtMount == {}

\* the rows createSampleData inserts: three todos of the sample list
SampleTodos ==
  {[id |-> SampleTodoIdSeq[k], list_id |-> SampleListId, completed |-> 0] :
     k \in 1..Len(SampleTodoIdSeq)}

\* the four INSERTs of createSampleData, one local transaction each
SampleMutations(tx) ==
  <<Mutation(tx + 1, "PUT", "lists", SampleListId, [id |-> SampleListId])>>
  \o [k \in 1..Len(SampleTodoIdSeq) |->
        Mutation(tx + 1 + k, "PUT", "todos", SampleTodoIdSeq[k],
                 [id |-> SampleTodoIdSeq[k], list_id |-> SampleListId,
                  completed |-> 0])]

\* createSampleData: INSERT the list, INSERT the todos, reload
CreateSampleData ==
  LET ms == SampleMutations(txCount) IN
  /\ dbLists' = dbLists \cup {SampleListId}
  /\ dbTodos' = dbTodos \cup SampleTodos
  /\ queue' = queue \o ms
  /\ txCount' = txCount + Len(ms)
  /\ directLists' = DirectLists(ms, directLists)
  /\ directTodos' = DirectTodos(ms, directLists, directTodos)
  /\ uiTodos' = dbTodos'

\* await powerSync.getAll('SELECT * FROM lists ...') settles; setLists
LoadLists ==
  /\ load = "lists"
  /\ \E ok \in BOOLEAN : load' = IF ok THEN "todos" ELSE "catch"
  /\ UNCHANGED <<dbLists, dbTodos, queue, txCount, nLists, nTodos, localOps,
                 uiTodos, deleting, directLists, directTodos, remoteVars, up,
                 envVars, providerVars>>

\* await powerSync.getAll('SELECT * FROM todos ...') settles; setTodos
LoadTodos ==
  /\ load = "todos"
  /\ \E ok \in BOOLEAN :
       /\ load' = IF ok THEN "done" ELSE "catch"
       /\ uiTodos' = IF ok THEN dbTodos ELSE uiTodos
  /\ UNCHANGED <<dbLists, dbTodos, queue, txCount, nLists, nTodos, localOps,
                 deleting, directLists, directTodos, remoteVars, up, envVars,
                 providerVars>>

\* the catch block of loadData: if (lists.length === 0) createSampleData()
LoadCatch ==
  /\ load = "catch"
  /\ load' = "done"
  /\ IF ListsAtMount = {}
       THEN CreateSampleData
       ELSE UNCHANGED <<dbLists, dbTodos, queue, txCount, uiTodos,
                        directLists, directTodos>>
  /\ UNCHANGED <<nLists, nTodos, localOps, deleting, remoteVars, up, envVars,
                 providerVars>>

LoadData ==
  \/ LoadLists
  \/ LoadTodos
  \/ LoadCatch

\* ------------------------------------------- SupabaseConnector.uploadData
\* An invocation is at one of: "loop" (top of the for loop, op i next),
\* "await" (awaiting the remote call of op i), "complete" (awaiting
\* transaction.complete()), "rollback" (in the catch block, awaiting
\* transaction.rollback()), "hung" (awaiting a call that never settles),
\* "done" (returned, or not invoked yet).

\* a loop that walks the batch from its end
OpAtReversed(crud, i) == crud[Len(crud) + 1 - i]

\* for (const op of transaction.crud): the mutation the i-th iteration takes
OpAt(crud, i) == crud[i]

\* where the loop goes once the iteration of op i is over
AfterOp(crud, i) == IF i < Len(crud) THEN "loop" ELSE "complete"

\* how an awaited supabase call can settle.  The query builder resolves with
\* {data, error}: "ok" carries no error, "error" carries one (a constraint
\* violation, or a failed fetch) and the remote store is unchanged.  "throw"
\* is a rejected promise, "hang" a promise that never settles.
CallOutcomes(call) ==
  (IF Rejects(call, remoteLists, remoteTodos) THEN {"error"} ELSE {"ok"})
    \cup (IF failures < MaxFailures THEN {"error", "throw", "hang"} ELSE {})

\* a catch block that goes round the loop again for the same mutation
AfterAwaitRetry(outcome, crud, i) ==
  IF outcome = "throw" THEN "loop"
  ELSE IF outcome = "hang" THEN "hung"
  ELSE AfterOp(crud, i)

\* an `await supabase...` statement: the value it resolves with is dropped,
\* so only a rejection leaves the try block
AfterAwait(outcome, crud, i) ==
  IF outcome = "throw" THEN "rollback"
  ELSE IF outcome = "hang" THEN "hung"
  ELSE AfterOp(crud, i)

\* a rollback placed in a finally block
AfterCompleteFinally(outcome) == "rollback"

\* `await transaction.complete()` inside the try block: a rejection is
\* caught like any other
AfterComplete(outcome) == IF outcome = "ok" THEN "done" ELSE "rollback"

\* an uploadData without `if (!transaction) return`: reading the crud of
\* no transaction throws inside the try block and lands in the catch block
StartStateNoReturn(crud, q) ==
  IF crud = <<>> THEN [IdleUpload EXCEPT !.pc = "rollback", !.rollbacks = 1]
  ELSE [IdleUpload EXCEPT !.pc = "loop", !.crud = crud, !.fetched = q]

\* the invocation after `if (!transaction) return`: returned when there is
\* no transaction, at the top of the loop otherwise
StartState(crud, q) ==
  IF crud = <<>> THEN IdleUpload
  ELSE [IdleUpload EXCEPT !.pc = "loop", !.crud = crud, !.fetched = q]

\* uploadData(database) is called: getNextCrudTransaction(), return if none
UploadStart(u) ==
  /\ up[u].pc = "done"
  /\ up' = [up EXCEPT ![u] = StartState(NextCrudTransaction(queue), queue)]
  /\ UNCHANGED <<localVars, remoteVars, failures, providerVars>>

\* one iteration of the for loop up to its await: the switch picks the call
\* and issues it; a mutation with no matching case issues nothing
UploadIssue(u) ==
  /\ up[u].pc = "loop"
  /\ LET op   == OpAt(up[u].crud, up[u].i)
         call == RemoteCall(op)
     IN up' = [up EXCEPT ![u] =
                 IF call = NoCall
                   THEN [@ EXCEPT !.results = Append(@, "skipped"),
                                  !.pc = AfterOp(up[u].crud, up[u].i),
                                  !.i = @ + 1]
                   ELSE [@ EXCEPT !.issued =
                                     Append(@, [pos |-> up[u].i, call |-> call]),
                                  !.pc = "await"]]
  /\ UNCHANGED <<localVars, remoteVars, envVars, providerVars>>

\* the awaited remote call settles
UploadReturn(u) ==
  /\ up[u].pc = "await"
  /\ LET call == up[u].issued[Len(up[u].issued)].call IN
     \E outcome \in CallOutcomes(call) :
       /\ remoteLists' = IF outcome = "ok"
                            THEN ApplyLists(call, remoteLists)
                            ELSE remoteLists
       /\ remoteTodos' = IF outcome = "ok"
                            THEN ApplyTodos(call, remoteLists, remoteTodos)
                            ELSE remoteTodos
       /\ failures' = IF outcome = "ok" \/ Rejects(call, remoteLists, remoteTodos)
                         THEN failures ELSE failures + 1
       /\ up' = [up EXCEPT ![u] =
                   [@ EXCEPT !.results = Append(@, outcome),
                             !.pc = AfterAwait(outcome, up[u].crud, up[u].i),
                             !.rollbacks = IF outcome = "throw" THEN @ + 1 ELSE @,
                             !.i = IF outcome \in {"ok", "error"} THEN @ + 1
                                   ELSE @]]
  /\ UNCHANGED <<localVars, reinvoked, providerVars>>

\* await transaction.complete() settles
UploadComplete(u) ==
  /\ up[u].pc = "complete"
  /\ \E outcome \in {"ok"} \cup (IF failures < MaxFailures THEN {"throw"} ELSE {}) :
       /\ queue' = IF outcome = "ok" THEN Complete(queue, up[u].crud) ELSE queue
       /\ failures' = IF outcome = "ok" THEN failures ELSE failures + 1
       /\ up' = [up EXCEPT ![u] =
                   [@ EXCEPT !.completes = @ + 1,
                             !.pc = AfterComplete(outcome),
                             !.rollbacks = IF AfterComplete(outcome) = "rollback"
                                             THEN @ + 1 ELSE @,
                             !.outcome = IF outcome = "ok" THEN "committed"
                                         ELSE @]]
  /\ UNCHANGED <<dbLists, dbTodos, txCount, nLists, nTodos, localOps,
                 uiTodos, load, deleting, directLists, directTodos,
                 remoteVars,
                 reinvoked, providerVars>>

\* await transaction.rollback() settles and uploadData returns
UploadRollback(u) ==
  /\ up[u].pc = "rollback"
  /\ queue' = Rollback(queue, up[u].crud)
  /\ up' = [up EXCEPT ![u] =
              [@ EXCEPT !.pc = "done",
                        !.outcome = IF @ = "committed" THEN "both"
                                    ELSE "rolledback"]]
  /\ UNCHANGED <<dbLists, dbTodos, txCount, nLists, nTodos, localOps,
                 uiTodos, load, deleting, directLists, directTodos,
                 remoteVars,
                 envVars, providerVars>>

\* PowerSync's upload loop calls connector.uploadData, one call at a time
InvokeUpload ==
  /\ \A u \in Invs : up[u].pc = "done"
  /\ UploadStart(1)
  /\ UNCHANGED reinvoked

\* uploadData is called again while the earlier call is still pending
ReinvokeUpload ==
  /\ reinvoked < MaxReinvocations
  /\ up[1].pc \notin {"done", "hung"}
  /\ UploadStart(2)
  /\ reinvoked' = reinvoked + 1

UploadStep ==
  \E u \in Invs :
    \/ UploadIssue(u)
    \/ UploadReturn(u)
    \/ UploadComplete(u)
    \/ UploadRollback(u)

\* ------------------------------------------------------- specifications
\* the connector driven by PowerSync's upload loop, next to the handlers
Next ==
  \/ InitializePowerSync
  \/ LocalNext
  \/ InvokeUpload
  \/ UploadStep

Spec == Init /\ [][Next]_vars

\* the event loop runs the continuation of every settled promise
FairSpec == Spec /\ WF_vars(UploadStep)

\* the connector when nothing keeps uploadData from being called again
NextReentrant == Next \/ ReinvokeUpload
ReentrantSpec == Init /\ [][NextReentrant]_vars

\* the application as App.js wires it: initializePowerSync leaves
\* powerSync.connect(connector) commented out, so nothing calls uploadData
AppNext ==
  \/ InitializePowerSync
  \/ LocalNext

AppSpec == Init /\ [][AppNext]_vars /\ WF_vars(AppNext)

\* the todo UI with handleToggleTodo taken apart at its awaits: a checkbox
\* can be clicked again while the reload of an earlier click is pending
UiNext ==
  \/ InitializePowerSync
  \/ HandleCreateList
  \/ HandleCreateTodo
  \/ ToggleTodoExecute
  \/ ToggleTodoReload

UiSpec == Init /\ [][UiNext]_vars

\* the handlers with handleDeleteList taken apart at its awaits: the form
\* of the list being deleted can be submitted between the two DELETEs
DeleteNext ==
  \/ InitializePowerSync
  \/ HandleCreateList
  \/ HandleCreateTodo
  \/ DeleteListTodos
  \/ DeleteListRow

DeleteSpec == Init /\ [][DeleteNext]_vars

\* the application from the mount of App on: loadData runs next to the
\* provider's initialisation and the handlers.  The local database is a
\* file that outlives the page: it is empty, or holds a list of an earlier
\* session, whose mutation is still queued since nothing uploads it
MountInit ==
  \E persisted \in BOOLEAN :
    /\ dbLists = IF persisted THEN {ListIdSeq[1]} ELSE {}
    /\ dbTodos = {}
    /\ queue = IF persisted
                 THEN <<Mutation(1, "PUT", "lists", ListIdSeq[1],
                                 [id |-> ListIdSeq[1]])>>
                 ELSE <<>>
    /\ txCount = IF persisted THEN 1 ELSE 0
    /\ nLists = IF persisted THEN 1 ELSE 0
    /\ nTodos = 0
    /\ localOps = 0
    /\ uiTodos = {}
    /\ load = "lists"
    /\ deleting = "none"
    /\ remoteLists = {}
    /\ remoteTodos = {}
    /\ directLists = IF persisted THEN {ListIdSeq[1]} ELSE {}
    /\ directTodos = {}
    /\ up = [u \in Invs |-> IdleUpload]
    /\ failures = 0
    /\ reinvoked = 0
    /\ isReady = FALSE
    /\ error = FALSE

MountNext ==
  \/ AppNext
  \/ LoadData

MountSpec == MountInit /\ [][MountNext]_vars

\* uploadData as a function of the transaction the database hands it: the
\* queue holds one transaction of any mutations, also of a table the switch
\* does not name; the local tables are not read by uploadData
BatchOps ==
  {Mutation(1, "PUT", "lists", "L1", [id |-> "L1"]),
   Mutation(1, "PUT", "todos", "T1",
            [id |-> "T1", list_id |-> "L1", completed |-> 0]),
   Mutation(1, "PATCH", "todos", "T1", [completed |-> 1]),
   Mutation(1, "DELETE", "todos", "T1", [id |-> "T1"]),
   Mutation(1, "DELETE", "lists", "L1", [id |-> "L1"]),
   Mutation(1, "PUT", "notes", "N1", [id |-> "N1"]),
   Mutation(1, "DELETE", "notes", "N1", [id |-> "N1"])}

BatchQueues == UNION {[1..n -> BatchOps] : n \in 0..MaxBatchLen}

BatchInit ==
  /\ queue \in BatchQueues
  /\ dbLists = {}
  /\ dbTodos = {}
  /\ txCount = 1
  /\ nLists = 0
  /\ nTodos = 0
  /\ localOps = 0
  /\ uiTodos = {}
  /\ load = "lists"
  /\ deleting = "none"
  /\ remoteLists = {}
  /\ remoteTodos = {}
  /\ directLists = DirectLists(queue, {})
  /\ directTodos = DirectTodos(queue, {}, {})
  /\ up = [u \in Invs |-> IdleUpload]
  /\ failures = 0
  /\ reinvoked = 0
  /\ isReady = TRUE
  /\ error = FALSE

BatchNext ==
  \/ InvokeUpload
  \/ UploadStep

BatchSpec == BatchInit /\ [][BatchNext]_vars

\* ----------------------------------------------------------------- claims
Range(s) == {s[k] : k \in 1..Len(s)}
Failed(r) == {k \in 1..Len(r.results) : r.results[k] \in {"error", "throw"}}
Returned(r) == {k \in 1..Len(r.results) : r.results[k] # "skipped"}

\* C1: transaction.complete() is invoked only when every mutation of the
\* batch was confirmed as applied by the remote store.
C1_CommitOnlyIfAllConfirmed ==
  \A u \in Invs :
    up[u].pc = "complete" =>
      \A k \in 1..Len(up[u].crud) : up[u].results[k] = "ok"

\* C2: an invocation in which an attempted remote call failed ends with
\* rollback, never with commit, and the failed mutation is still queued.
C2_FailedCallRollsBack ==
  \A u \in Invs :
    (up[u].pc = "done" /\ Failed(up[u]) # {}) =>
      /\ up[u].outcome = "rolledback"
      /\ \A k \in Failed(up[u]) : up[u].crud[k] \in Range(queue)

\* C3: after a batch was rolled back the queue still holds every mutation
\* it held when the batch was fetched, in the same order; nothing of the
\* batch was removed.
C3_RollbackKeepsQueue ==
  \A u \in Invs :
    (up[u].pc = "done" /\ up[u].outcome = "rolledback") =>
      IsPrefix(up[u].fetched, queue)

\* a batch of 3 mutations was rolled back after its 2nd call failed
C3_Witness ==
  \E u \in Invs :
    /\ up[u].pc = "done" /\ up[u].outcome = "rolledback"
    /\ Len(up[u].crud) = 3
    /\ up[u].results = <<"ok", "throw">>
    /\ Len(queue) > Len(up[u].crud)

\* C4: within one invocation the calls are issued in the order of the
\* batch, each for the mutation at its position, and a call is issued only
\* after the one before it has returned.
C4_CallsInBatchOrder ==
  \A u \in Invs :
    LET r == up[u] IN
    /\ \A k \in 1..Len(r.issued) :
         /\ r.issued[k].pos \in 1..Len(r.crud)
         /\ r.issued[k].call.table = r.crud[r.issued[k].pos].table
         /\ (IF r.issued[k].call.kind = "upsert"
               THEN r.issued[k].call.payload.id
               ELSE r.issued[k].call.eq) = r.crud[r.issued[k].pos].id
         /\ \A j \in 1..(k - 1) : r.issued[j].pos < r.issued[k].pos
    /\ Len(r.issued) - Cardinality(Returned(r)) =
         (IF r.pc = "await" THEN 1 ELSE 0)

\* the second call of a batch is pending, the first has returned
C4_Witness ==
  \E u \in Invs :
    up[u].pc = "await" /\ Len(up[u].issued) = 2 /\ Len(up[u].results) = 1

\* C5: once the queue is drained the remote store equals the store obtained
\* by applying the queued mutations once each, in order, directly.
C5_DrainEqualsDirect ==
  (queue = <<>> /\ \A u \in Invs : up[u].pc = "done") =>
    (remoteLists = directLists /\ remoteTodos = directTodos)

\* C6: every mutation on lists or todos is turned into one call on the
\* same-named table: PUT an upsert of the payload, PATCH an update of the
\* payload filtered by the mutation's id, DELETE a delete filtered by it.
C6_CallShape ==
  \A u \in Invs :
    \A k \in 1..Len(up[u].issued) :
      LET c  == up[u].issued[k].call
          op == up[u].crud[up[u].issued[k].pos]
      IN /\ c.table = op.table /\ c.table \in {"lists", "todos"}
         /\ op.op = "PUT" =>
              c = [kind |-> "upsert", table |-> c.table, payload |-> op.opData]
         /\ op.op = "PATCH" =>
              c = [kind |-> "update", table |-> c.table, payload |-> op.opData,
                   eq |-> op.id]
         /\ op.op = "DELETE" =>
              c = [kind |-> "delete", table |-> c.table, eq |-> op.id]
         /\ \A j \in 1..Len(up[u].issued) :
              up[u].issued[j].pos = up[u].issued[k].pos => j = k

\* the call of a PATCH mutation was issued and has returned
C6_Witness ==
  \E u \in Invs :
    /\ up[u].issued # <<>>
    /\ up[u].issued[1].call.kind = "update"
    /\ up[u].results = <<"ok">>

\* C7 as claimed: for one fetched batch exactly one of complete() and
\* rollback() is ever invoked.
C7_ExactlyOneTerminalCall ==
  \A u \in Invs :
    (up[u].pc = "done" /\ up[u].crud # <<>>) =>
      up[u].completes + up[u].rollbacks = 1

\* C7 amended: complete() and rollback() are each invoked at most once for
\* a fetched batch, a returned invocation invoked at least one of them,
\* rollback() follows complete() only when complete() failed, and a batch
\* whose complete() succeeded is never rolled back.
C7_TerminalCallsOnce ==
  \A u \in Invs :
    /\ up[u].completes <= 1 /\ up[u].rollbacks <= 1
    /\ up[u].outcome # "both"
    /\ up[u].outcome = "committed" => up[u].rollbacks = 0
    /\ (up[u].pc = "done" /\ up[u].crud # <<>>) =>
         (up[u].completes + up[u].rollbacks >= 1
          /\ up[u].outcome \in {"committed", "rolledback"})
    /\ up[u].pc \in {"loop", "await", "hung"} =>
         up[u].completes + up[u].rollbacks = 0

\* complete() failed and the batch was rolled back
C7_Witness ==
  \E u \in Invs :
    /\ up[u].pc = "done" /\ up[u].outcome = "rolledback"
    /\ up[u].completes = 1 /\ up[u].rollbacks = 1

\* C8: there is never more than one batch fetched and not yet committed or
\* rolled back, also when uploadData is invoked again while an earlier
\* invocation is pending.
C8_SingleBatchInFlight ==
  Cardinality({u \in Invs : up[u].pc # "done"}) <= 1

\* C9: an invocation awaiting a remote call eventually returns, also when
\* the call hangs.
C9_UploadTerminates ==
  \A u \in Invs : (up[u].pc = "await") ~> (up[u].pc = "done")

\* C10: a queued mutation is eventually taken up by the uploader.
C10_QueuedEventuallyUploaded ==
  (queue # <<>>) ~> (queue = <<>> \/ \E u \in Invs : up[u].crud # <<>>)

Known(op) == op.table \in {"lists", "todos"}
IssuedAt(r) == {r.issued[j].pos : j \in 1..Len(r.issued)}

\* C11: a mutation of a table other than lists and todos is skipped without
\* a remote call and without failing the batch; the other mutations are
\* still applied, and when all of them succeed complete() is invoked.
C11_UnknownTableSkipped ==
  \A u \in Invs :
    LET r == up[u] IN
    /\ \A k \in 1..Len(r.crud) :
         /\ ~Known(r.crud[k]) =>
              (k \notin IssuedAt(r)
               /\ (k <= Len(r.results) => r.results[k] = "skipped"))
         /\ (Known(r.crud[k]) /\ k <= Len(r.results)) => k \in IssuedAt(r)
    /\ (r.crud # <<>> /\ Len(r.results) = Len(r.crud)
          /\ \A k \in 1..Len(r.results) : r.results[k] \in {"ok", "skipped"}) =>
         /\ r.pc \in {"complete", "done", "rollback"}
         /\ r.pc # "complete" => r.completes = 1
         /\ (r.pc = "done" /\ r.rollbacks = 0) => r.outcome = "committed"

\* a batch whose 2nd mutation is of another table was applied and committed
C11_Witness ==
  \E u \in Invs :
    /\ up[u].pc = "done" /\ up[u].outcome = "committed"
    /\ up[u].results = <<"ok", "skipped", "ok">>
    /\ Len(up[u].issued) = 2

\* C12: called on an empty queue, uploadData returns at once: no remote
\* call, neither complete() nor rollback(), queue and remote store unchanged.
C12_EmptyQueueNoOp ==
  [][(queue = <<>> /\ (\A u \in Invs : up[u].pc = "done") /\ up' # up) =>
       /\ up' = [up EXCEPT ![1] = IdleUpload]
       /\ queue' = queue
       /\ remoteLists' = remoteLists /\ remoteTodos' = remoteTodos]_vars

\* uploadData was called and returned on a queue drained before
C12_Witness ==
  queue = <<>> /\ txCount > 0 /\ up[1] = IdleUpload

\* C13: handlers append to the queue while a batch is in flight; what they
\* append is not part of that batch and is still queued, behind what was
\* queued before, once the batch is committed or rolled back.
C13_AppendsSurviveBatch ==
  [][\A u \in Invs :
       /\ (up[u].pc = "complete" /\ up'[u].pc = "done") =>
            queue' = SubSeq(queue, Len(up[u].crud) + 1, Len(queue))
       /\ (up[u].pc = "rollback" /\ up'[u].pc = "done") => queue' = queue
       /\ (up[u].pc # "done" /\ up' = up /\ queue' # queue) =>
            /\ IsPrefix(queue, queue')
            /\ up[u].crud = NextCrudTransaction(queue')
            /\ \A k \in (Len(queue) + 1)..Len(queue') :
                 queue'[k] \notin Range(up[u].crud)]_vars

\* a batch was committed and a mutation appended meanwhile is still queued
C13_Witness ==
  \E u \in Invs :
    /\ up[u].pc = "done" /\ up[u].outcome = "committed"
    /\ Len(queue) > Len(up[u].fetched) - Len(up[u].crud)
    /\ \E k \in 1..Len(queue) : queue[k] \notin Range(up[u].fetched)

\* the lists the handlers created and deleted again
DeletedLists == {ListIdSeq[k] : k \in 1..nLists} \ dbLists
Drained == queue = <<>> /\ \A u \in Invs : up[u].pc = "done"

\* C14: deleting a list removes its todos before the list, locally and in
\* the queue, so that once the queue is drained the remote store holds
\* neither the list nor a todo of it.
C14_DeleteListTodosFirst ==
  /\ \A t \in dbTodos : t.list_id \notin DeletedLists
  /\ \A p \in 1..Len(queue) :
       (queue[p].op = "DELETE" /\ queue[p].table = "lists") =>
         \A q \in 1..(p - 1) :
           (queue[q].op = "PUT" /\ queue[q].table = "todos"
              /\ queue[q].opData.list_id = queue[p].id) =>
             \E r \in (q + 1)..(p - 1) :
               /\ queue[r].op = "DELETE" /\ queue[r].table = "todos"
               /\ queue[r].id = queue[q].id
  /\ Drained =>
       /\ remoteLists \cap DeletedLists = {}
       /\ \A t \in remoteTodos : t.list_id \notin DeletedLists
  /\ \A u \in Invs :
       (up[u].pc = "await" /\ up[u].crud[up[u].i].op = "DELETE"
          /\ up[u].crud[up[u].i].table = "lists") =>
         \A t \in remoteTodos : t.list_id # up[u].crud[up[u].i].id

\* C15: every todo of the remote store refers to a list of the remote store.
C15_RemoteTodosHaveList ==
  \A t \in remoteTodos : t.list_id \in remoteLists

\* the upsert of a todo whose list is not in the remote store was turned
\* down, next to a todo the remote store holds
C15_Witness ==
  /\ remoteTodos # {}
  /\ \E u \in Invs :
       /\ up[u].results = <<"error">>
       /\ up[u].crud[1].op = "PUT" /\ up[u].crud[1].table = "todos"
       /\ up[u].crud[1].opData.list_id \notin remoteLists

\* C16: no upsert or update the uploader issues carries completed as the
\* integer 0 or 1.
C16_CompletedSentAsBoolean ==
  \A u \in Invs :
    \A k \in 1..Len(up[u].issued) :
      LET c == up[u].issued[k].call IN
      (c.kind \in {"upsert", "update"} /\ "completed" \in DOMAIN c.payload) =>
        c.payload.completed \notin {0, 1}

C18_NoInternalRetry ==
  [][\A u \in Invs :
       /\ up[u].pc # "done" =>
            /\ up'[u].crud = up[u].crud
            /\ up'[u].fetched = up[u].fetched
       /\ Cardinality(IssuedAt(up'[u])) = Len(up'[u].issued)
       /\ Len(up'[u].issued) <= Len(up'[u].crud)
       /\ (\E k \in 1..Len(up[u].results) : up[u].results[k] = "throw") =>
            /\ up[u].pc \in {"rollback", "done"}
            /\ up[u].pc = "rollback" =>
                 /\ up'[u].pc \in {"rollback", "done"}
                 /\ up'[u].issued = up[u].issued]_vars

\* a call was rejected, the batch rolled back and the invocation is over
\* with the batch still at the head of the queue
C18_Witness ==
  \E u \in Invs :
    /\ up[u].pc = "done" /\ up[u].outcome = "rolledback"
    /\ up[u].results[Len(up[u].results)] = "throw"
    /\ Len(up[u].issued) = 1
    /\ NextCrudTransaction(queue) = up[u].crud

\* C19: once the call for position k has failed, no call is issued for a
\* later position in that invocation, complete() is not invoked, and the
\* invocation ends with the batch rolled back.
C19_FailureAbortsBatch ==
  \A u \in Invs :
    \A k \in Failed(up[u]) :
      /\ \A p \in IssuedAt(up[u]) : p <= k
      /\ up[u].pc \in {"rollback", "done"}
      /\ up[u].completes = 0
      /\ up[u].pc = "done" => up[u].outcome = "rolledback"

\* the todo a step toggles: the step puts a PATCH for it in the queue
Toggled(todoId) ==
  /\ Len(queue') = Len(queue) + 1
  /\ queue'[Len(queue')].op = "PATCH"
  /\ queue'[Len(queue')].id = todoId

\* C20: a toggle leaves the todo's stored completed value at 1 if it was 0
\* just before and at 0 if it was 1, whether or not the UI has reloaded
\* since the toggle before it.
C20_ToggleFlipsStored ==
  [][\A todoId \in TodoIds :
       Toggled(todoId) =>
         \A r \in dbTodos : \A n \in dbTodos' :
           (r.id = todoId /\ n.id = todoId) =>
             n.completed = (IF r.completed = 0 THEN 1 ELSE 0)]_vars

\* C21: once powerSync.init() has failed and the provider is ready with the
\* error recorded, the provider's children (the todo UI) are eventually
\* rendered.
C21_InitFailureStillRendersUi == (isReady /\ error) ~> Rendered

\* loadData returns in this step
LoadReturns == load # "done" /\ load' = "done"

\* createSampleData inserts its list in this step
SampleCreated == SampleListId \notin dbLists /\ SampleListId \in dbLists'

\* C22: when loadData finds no lists and no todos, sample data is created;
\* what is created is one list and three todos of that list, none
\* completed; and it is created only when no list exists.
C22_SampleDataWhenEmpty ==
  [][/\ (LoadReturns /\ dbLists = {} /\ dbTodos = {}) => SampleCreated
     /\ SampleCreated =>
          /\ dbLists = {}
          /\ dbLists' = {SampleListId}
          /\ Cardinality(dbTodos' \ dbTodos) = 3
          /\ \A t \in dbTodos' \ dbTodos :
               t.list_id = SampleListId /\ t.completed = 0]_vars

\* C23: an invocation takes the oldest transaction of the queue as its
\* batch, and when a remote call settles no mutation of an older
\* transaction is in the queue: nothing queued behind a batch is applied
\* while that batch, rolled back or not, is in the queue.
C23_NoOvertaking ==
  [][\A u \in Invs :
       /\ (up[u].pc = "done" /\ up'[u].pc = "loop") =>
            \A k \in 1..Len(up'[u].crud) : up'[u].crud[k].tx = Head(queue).tx
       /\ (up[u].pc = "await" /\ up'[u].pc # "await") =>
            \A k \in 1..Len(queue) :
              up[u].crud[up[u].issued[Len(up[u].issued)].pos].tx <=
                queue[k].tx]_vars

\* a batch was rolled back and is still at the head of the queue; the PUT
\* queued behind it has not reached the remote store
C23_Witness ==
  \E u \in Invs :
    /\ up[u].pc = "done" /\ up[u].outcome = "rolledback"
    /\ Len(queue) > Len(up[u].crud)
    /\ Head(queue) = up[u].crud[1]
    /\ queue[Len(up[u].crud) + 1].op = "PUT"
    /\ queue[Len(up[u].crud) + 1].id \notin
         remoteLists \cup {t.id : t \in remoteTodos}

\* every call of the invocation was confirmed (or its mutation skipped)
AllOk(r) == \A k \in 1..Len(r.results) : r.results[k] \in {"ok", "skipped"}

\* the mutations ms, applied once each in order to the store, are all
\* accepted by it
RECURSIVE DirectFailureFree(_, _, _)
DirectFailureFree(ms, lists, todos) ==
  \/ ms = <<>>
  \/ /\ ~Rejects(RemoteCall(Head(ms)), lists, todos)
     /\ DirectFailureFree(Tail(ms),
                          ApplyLists(RemoteCall(Head(ms)), lists),
                          ApplyTodos(RemoteCall(Head(ms)), lists, todos))

\* C24: rollback() leaves the remote store as the failed attempt left it;
\* and when a later invocation applies the whole batch with every call
\* confirmed, the remote store is the one a single failure-free application
\* of the batch to the initial (empty) store gives.
C24_RetryAfterPartial ==
  [][\A u \in Invs :
       /\ (up[u].pc = "rollback" /\ up'[u].pc = "done") =>
            (remoteLists' = remoteLists /\ remoteTodos' = remoteTodos)
       /\ (/\ up[u].pc = "complete" /\ up'[u].outcome = "committed"
           /\ AllOk(up[u])
           /\ DirectFailureFree(up[u].crud, {}, {})) =>
            (remoteLists' = directLists /\ remoteTodos' = directTodos)]_vars

\* a batch of three mutations was committed with every call confirmed by
\* an invocation that followed a failed one, and left rows remotely
C24_Witness ==
  \E u \in Invs :
    /\ up[u].pc = "done" /\ up[u].outcome = "committed"
    /\ failures = 1
    /\ up[u].results = <<"ok", "ok", "ok">>
    /\ remoteTodos # {}

====
